---------------------------- MODULE Spec2Model ----------------------------
(***************************************************************************)
(* HitPlay: release-year resolution for one audio track.                   *)
(*                                                                         *)
(* Text is modelled as a sequence of one-character strings, so that the    *)
(* string operations of the source (split, isdigit, regular-expression     *)
(* search, lexicographic min) are computed, not assumed.  The empty        *)
(* Python string "" is the empty sequence << >>.                           *)
(***************************************************************************)
EXTENDS Naturals, Integers, Sequences, FiniteSets, TLC

VARIABLES
    pc,               \* position of the running entry point
    tag,              \* the file's extension and tag fields (input)
    artist,           \* local `artist`
    title,            \* local `title`
    year,             \* local `year` of get_audio_metadata (seed, then final)
    wikipedia_year,   \* local `wikipedia_year`
    musicbrainz_year, \* local `musicbrainz_year`
    titles,           \* local `titles` of fetch_wikipedia_released_year
    page,             \* the page answered last
    infobox,          \* local `infobox` of get_song_release_date
    released,         \* value returned by get_song_release_date
    attempt,          \* loop variable of fetch_musicbrainz_year
    data,             \* the recordings answered last
    log,              \* history of external steps (requests and sleeps)
    result,           \* value returned by the entry point
    handlers,         \* the request threads of the server: their locals
    state,            \* dict `state` shared by the request handlers
    runner,           \* window.dialog_runner: queued calls, connected slots
    files             \* the flashcards.json of every folder: its cards

vars == <<pc, tag, artist, title, year, wikipedia_year, musicbrainz_year,
          titles, page, infobox, released, attempt, data, log, result,
          handlers, state, runner, files>>

\* the variables of the HTTP server
server == <<handlers, state, runner, files>>

\* what an entry point returned: nothing yet, None, a tuple, a string (kept
\* in `released`), or an exception
Pending == [kind |-> "pending", artist |-> << >>, title |-> << >>, year |-> << >>]
None == [kind |-> "None", artist |-> << >>, title |-> << >>, year |-> << >>]
Tuple(a, t, y) == [kind |-> "tuple", artist |-> a, title |-> t, year |-> y]
String == [kind |-> "str", artist |-> << >>, title |-> << >>, year |-> << >>]
Boolean(b) ==
    [kind |-> IF b THEN "True" ELSE "False",
     artist |-> << >>, title |-> << >>, year |-> << >>]
Raised == [kind |-> "raised", artist |-> << >>, title |-> << >>, year |-> << >>]

---------------------------------------------------------------------------
(* Characters and strings *)

Digit == {"0", "1", "2", "3", "4", "5", "6", "7", "8", "9"}
Letter == {"a", "A", "B", "T", "c", "k", "s", "x"}

\* words written as one element: field keys, template names, title words
Word == {"released", "Released", "artist", "Artist", "label", "Infobox song",
         "infobox song", "Unknown Artist", "Unknown Title", "song", "live",
         "remastered", "Remaster", "feat", "Start date", "start date", "cite",
         "ref", "REF", "disambig", "disambiguation", "Disambiguation",
         "remix", "anniversary", "version", "single", "album", "stereo",
         "mono", "edition", "Live"}

\* str.lower() on the elements that have an upper-case form
LowerOf(c) ==
    CASE c = "Artist" -> "artist"
      [] c = "Released" -> "released"
      [] c = "Start date" -> "start date"
      [] c = "Infobox song" -> "infobox song"
      [] c = "REF" -> "ref"
      [] c = "Disambiguation" -> "disambiguation"
      [] c = "Live" -> "live"
      [] OTHER -> c

lower(s) == [i \in 1..Len(s) |-> LowerOf(s[i])]

\* \w of the regular expressions (a word begins and ends with a letter)
IsWordChar(c) == c \in Digit \cup Letter \cup Word \cup {"_"}

\* \s of the regular expressions
IsSpace(c) == c \in {" ", "\n"}

\* code point order of the characters used, for Python's string comparison
Ord(c) ==
    CASE c = " " -> 32
      [] c = "-" -> 45
      [] c = "0" -> 48 [] c = "1" -> 49 [] c = "2" -> 50 [] c = "3" -> 51
      [] c = "4" -> 52 [] c = "5" -> 53 [] c = "6" -> 54 [] c = "7" -> 55
      [] c = "8" -> 56 [] c = "9" -> 57
      [] c = "A" -> 65 [] c = "B" -> 66 [] c = "T" -> 84
      [] c = "_" -> 95
      [] c = "a" -> 97 [] c = "c" -> 99 [] c = "k" -> 107
      [] OTHER -> 127

DigitVal(c) == Ord(c) - 48

\* str.isdigit()
isdigit(s) == s # << >> /\ \A i \in 1..Len(s) : s[i] \in Digit

\* Python's s < t on strings: lexicographic by code point
RECURSIVE StrLess(_, _)
StrLess(s, t) ==
    IF t = << >> THEN FALSE
    ELSE IF s = << >> THEN TRUE
    ELSE IF Ord(Head(s)) # Ord(Head(t)) THEN Ord(Head(s)) < Ord(Head(t))
    ELSE StrLess(Tail(s), Tail(t))

\* Python's min(list) on a non-empty list of strings
RECURSIVE min(_)
min(l) ==
    IF Len(l) = 1 THEN l[1]
    ELSE LET m == min(Tail(l)) IN IF StrLess(m, Head(l)) THEN m ELSE Head(l)

\* [y for y in l if y]
NonEmpty(l) == SelectSeq(l, LAMBDA y : y # << >>)

\* str.strip()
RECURSIVE strip(_)
strip(s) ==
    IF s # << >> /\ IsSpace(Head(s)) THEN strip(Tail(s))
    ELSE IF s # << >> /\ IsSpace(s[Len(s)])
         THEN strip(SubSeq(s, 1, Len(s) - 1))
         ELSE s

\* s.split(sep)[0]
RECURSIVE SplitFirst(_, _)
SplitFirst(s, sep) ==
    IF s = << >> \/ Head(s) = sep THEN << >>
    ELSE <<Head(s)>> \o SplitFirst(Tail(s), sep)

SetMin(S) == CHOOSE x \in S : \A y \in S : x <= y

---------------------------------------------------------------------------
(* main.py: year extraction *)

\* the part before the first "-", whatever its length
_extract_year_unchecked(date_str) == SplitFirst(date_str, "-")

_extract_year(date_str) ==
    IF date_str = << >> THEN << >>
    ELSE LET y == SplitFirst(date_str, "-")
         IN  IF Len(y) = 4 /\ isdigit(y) THEN y ELSE << >>

\* a match of \b(19[0-9]{2}|20[0-9]{2})\b starting at position i
YearMatchAt(text, i) ==
    /\ i + 3 <= Len(text)
    /\ \/ text[i] = "1" /\ text[i + 1] = "9"
       \/ text[i] = "2" /\ text[i + 1] = "0"
    /\ text[i + 2] \in Digit
    /\ text[i + 3] \in Digit
    /\ i = 1 \/ ~IsWordChar(text[i - 1])
    /\ i + 3 = Len(text) \/ ~IsWordChar(text[i + 4])

YearMatches(text) == {i \in 1..Len(text) : YearMatchAt(text, i)}

_extract_year_from_text(text) ==
    IF text = << >> THEN << >>
    ELSE IF YearMatches(text) = {} THEN << >>
    ELSE LET i == SetMin(YearMatches(text)) IN SubSeq(text, i, i + 3)

\* re.findall: the matches from left to right
RECURSIVE FindAllYears(_, _)
FindAllYears(text, from) ==
    IF from > Len(text) THEN << >>
    ELSE IF YearMatchAt(text, from)
         THEN <<SubSeq(text, from, from + 3)>> \o FindAllYears(text, from + 4)
         ELSE FindAllYears(text, from + 1)

_extract_earliest_year_from_text(text) ==
    IF text = << >> THEN << >>
    ELSE LET years == FindAllYears(text, 1)
         IN  IF years # << >> THEN min(years) ELSE << >>

---------------------------------------------------------------------------
(* main.py: title normalisation *)

\* terms of the pattern in _strip_title_parenthetical_terms, each one element
Terms == {"remix", "remastered", "anniversary", "version", "live", "single",
          "album", "stereo", "mono", "edition"}

\* first index >= i of `text` that holds no whitespace (Len + 1 if none)
RECURSIVE SkipSpace(_, _)
SkipSpace(text, i) ==
    IF i <= Len(text) /\ IsSpace(text[i]) THEN SkipSpace(text, i + 1) ELSE i

\* first index >= i of `text` that holds `c` (0 if none)
RECURSIVE Find(_, _, _)
Find(text, c, i) ==
    IF i > Len(text) THEN 0
    ELSE IF text[i] = c THEN i ELSE Find(text, c, i + 1)

\* \([^)]*\b(?:terms)\b[^)]*\) with its "(" at o: the index of its ")" (0: no match)
ParenTermClose(text, o) ==
    IF o > Len(text) \/ text[o] # "(" THEN 0
    ELSE LET c == Find(text, ")", o + 1)
         IN  IF c # 0 /\ \E i \in (o + 1)..(c - 1) :
                            /\ LowerOf(text[i]) \in Terms
                            /\ ~IsWordChar(text[i - 1])
                            /\ ~IsWordChar(text[i + 1])
             THEN c ELSE 0

\* re.sub(pattern, " ", title, count=1): only the leftmost match replaced
RECURSIVE SubParenTermsOnce(_, _)
SubParenTermsOnce(text, from) ==
    IF from > Len(text) THEN << >>
    ELSE LET c == ParenTermClose(text, SkipSpace(text, from))
         IN  IF c # 0
             THEN <<" ">> \o SubSeq(text, SkipSpace(text, c + 1), Len(text))
             ELSE <<text[from]>> \o SubParenTermsOnce(text, from + 1)

\* re.sub(pattern, " ", title): leftmost matches replaced, the rest copied
RECURSIVE SubParenTerms(_, _)
SubParenTerms(text, from) ==
    IF from > Len(text) THEN << >>
    ELSE LET c == ParenTermClose(text, SkipSpace(text, from))
         IN  IF c # 0
             THEN <<" ">> \o SubParenTerms(text, SkipSpace(text, c + 1))
             ELSE <<text[from]>> \o SubParenTerms(text, from + 1)

\* re.sub(r"\s{2,}", " ", s)
RECURSIVE CollapseSpaces2(_, _)
CollapseSpaces2(text, from) ==
    IF from > Len(text) THEN << >>
    ELSE LET e == SkipSpace(text, from)
         IN  IF e >= from + 2
             THEN <<" ">> \o CollapseSpaces2(text, e)
             ELSE <<text[from]>> \o CollapseSpaces2(text, from + 1)

_strip_title_parenthetical_terms(t) ==
    IF t = << >> THEN t
    ELSE strip(CollapseSpaces2(SubParenTerms(t, 1), 1))

---------------------------------------------------------------------------
(* main.py: the "released" field of a page, fetch_wikipedia_released_year *)

LineStart(text, q) == q = 1 \/ text[q - 1] = "\n"

\* ^\s*\|\s*released\s*= matched at p: the index after "=" (0: no match)
ReleasedPrefix(text, p) ==
    IF ~LineStart(text, p) THEN 0
    ELSE LET a == SkipSpace(text, p)
         IN  IF a > Len(text) \/ text[a] # "|" THEN 0
             ELSE LET b == SkipSpace(text, a + 1)
                  IN  IF b > Len(text) \/ text[b] # "released" THEN 0
                      ELSE LET c == SkipSpace(text, b + 1)
                           IN  IF c > Len(text) \/ text[c] # "=" THEN 0
                               ELSE c + 1

\* the lookahead (?=^\s*\|\s*|\n}}\s*$) at q, under MULTILINE
ReleasedLookahead(text, q) ==
    \/ /\ LineStart(text, q)
       /\ SkipSpace(text, q) <= Len(text)
       /\ text[SkipSpace(text, q)] = "|"
    \/ /\ q + 2 <= Len(text)
       /\ text[q] = "\n" /\ text[q + 1] = "}" /\ text[q + 2] = "}"
       /\ LET e == SkipSpace(text, q + 3)
          IN  e > Len(text) \/ \E r \in (q + 3)..(e - 1) : text[r] = "\n"

\* group(1) of the search: the text a year can come from ("" when no match).
\* \s* after "=" is greedy and .+? lazy: the group runs from the first
\* non-space element after "=" to the first later place the lookahead holds;
\* where there is none, only a group of whitespace can match.
ReleasedText(text) ==
    LET starts == {p \in 1..Len(text) : ReleasedPrefix(text, p) # 0}
    IN  IF starts = {} THEN << >>
        ELSE LET g == SkipSpace(text, ReleasedPrefix(text, SetMin(starts)))
                 ends == {q \in (g + 1)..(Len(text) + 1) :
                             ReleasedLookahead(text, q)}
             IN  IF g > Len(text) \/ ends = {} THEN << >>
                 ELSE SubSeq(text, g, SetMin(ends) - 1)

\* lines 158-175: the body of the page response, up to the year returned
PageYear(p) ==
    IF p.kind # "wikitext" \/ p.text = << >> THEN << >>
    ELSE _extract_earliest_year_from_text(ReleasedText(p.text))

---------------------------------------------------------------------------
(* main.py: the recordings of a response, fetch_musicbrainz_year 213-232 *)

\* year of the first release with a dated year (lines 226-229)
RECURSIVE FirstReleaseYear(_)
FirstReleaseYear(releases) ==
    IF releases = << >> THEN << >>
    ELSE IF _extract_year(Head(releases).date) # << >>
         THEN _extract_year(Head(releases).date)
         ELSE FirstReleaseYear(Tail(releases))

\* one pass of the loop body (lines 215-229): skipped by `continue`, raising
\* AttributeError, or giving the recording's year
RecordingYear(recording) ==
    IF recording.releases = << >> THEN [st |-> "skip", year |-> << >>]
    ELSE IF ~recording.releases[1].release_group
         THEN [st |-> "raise", year |-> << >>]
    ELSE IF _extract_year(recording.first_release_date) # << >>
         THEN [st |-> "ok", year |-> _extract_year(recording.first_release_date)]
         ELSE [st |-> "ok", year |-> FirstReleaseYear(recording.releases)]

\* the loop over data["recordings"] (lines 213-232)
RECURSIVE BestYear(_, _)
BestYear(recordings, best_year) ==
    IF recordings = << >> THEN [st |-> "ok", year |-> best_year]
    ELSE LET r == RecordingYear(Head(recordings))
         IN  IF r.st = "raise" THEN r
             ELSE IF /\ r.st = "ok"
                     /\ r.year # << >>
                     /\ (best_year = << >> \/ StrLess(r.year, best_year))
                  THEN BestYear(Tail(recordings), r.year)
                  ELSE BestYear(Tail(recordings), best_year)

---------------------------------------------------------------------------
(* wiki.py: _clean_wikitext *)

\* s.split(sep)
RECURSIVE split(_, _)
split(s, sep) ==
    LET i == Find(s, sep, 1)
    IN  IF i = 0 THEN <<s>>
        ELSE <<SubSeq(s, 1, i - 1)>> \o split(SubSeq(s, i + 1, Len(s)), sep)

\* sep.join(l), sep one element
RECURSIVE joinWith(_, _)
joinWith(l, sep) ==
    IF l = << >> THEN << >>
    ELSE IF Len(l) = 1 THEN l[1]
    ELSE l[1] \o <<sep>> \o joinWith(Tail(l), sep)

\* "<ref" at i, in any case
RefOpensAt(text, i) ==
    i + 1 <= Len(text) /\ text[i] = "<" /\ LowerOf(text[i + 1]) = "ref"

\* "</ref>" at k, in any case
RefClosesAt(text, k) ==
    /\ k + 3 <= Len(text)
    /\ text[k] = "<" /\ text[k + 1] = "/"
    /\ LowerOf(text[k + 2]) = "ref" /\ text[k + 3] = ">"

\* <ref[^>]*>.*?</ref> under re.S | re.I
RefElementMatch(text, i) ==
    IF ~RefOpensAt(text, i) THEN 0
    ELSE LET j == Find(text, ">", i + 2)
             closes == IF j = 0 THEN {}
                       ELSE {k \in (j + 1)..Len(text) : RefClosesAt(text, k)}
         IN  IF closes = {} THEN 0 ELSE SetMin(closes) + 3

\* <ref[^/]*/> under re.I
RefSelfClosingMatch(text, i) ==
    IF ~RefOpensAt(text, i) THEN 0
    ELSE LET j == Find(text, "/", i + 2)
         IN  IF j # 0 /\ j + 1 <= Len(text) /\ text[j + 1] = ">"
             THEN j + 1 ELSE 0

\* <[^>]+>
TagMatch(text, i) ==
    IF text[i] # "<" THEN 0
    ELSE LET j == Find(text, ">", i + 1)
         IN  IF j >= i + 2 THEN j ELSE 0

\* \[\[([^|\]]*\|)?([^\]]+)\]\]: the index of the first "]" (0: no match)
LinkClose(text, i) ==
    IF ~(i + 1 <= Len(text) /\ text[i] = "[" /\ text[i + 1] = "[") THEN 0
    ELSE LET c == Find(text, "]", i + 2)
         IN  IF c >= i + 3 /\ c + 1 <= Len(text) /\ text[c + 1] = "]"
             THEN c ELSE 0

LinkMatch(text, i) == IF LinkClose(text, i) = 0 THEN 0 ELSE LinkClose(text, i) + 1

\* group(2): the text after the first "|" when that leaves something
LinkText(text, i, last) ==
    LET c == last - 1
        bar == Find(SubSeq(text, 1, c - 1), "|", i + 2)
    IN  IF bar # 0 /\ bar + 1 <= c - 1
        THEN SubSeq(text, bar + 1, c - 1)
        ELSE SubSeq(text, i + 2, c - 1)

\* \{\{([^\}]*)\}\}
TemplateMatch(text, i) ==
    IF ~(i + 1 <= Len(text) /\ text[i] = "{" /\ text[i + 1] = "{") THEN 0
    ELSE LET c == Find(text, "}", i + 2)
         IN  IF c # 0 /\ c + 1 <= Len(text) /\ text[c + 1] = "}"
             THEN c + 1 ELSE 0

DateTemplates ==
    {<<"start date">>, <<"start date and age">>, <<"start-date">>,
     <<"birth date">>, <<"birth-date">>, <<"date">>}

\* _tpl_repl
_tpl_repl(text, i, last) ==
    LET inner == SubSeq(text, i + 2, last - 2)
        parts == split(inner, "|")
        nums == SelectSeq(Tail(parts), LAMBDA q : isdigit(strip(q)))
    IN  IF inner # << >> /\ lower(strip(parts[1])) \in DateTemplates
                         /\ nums # << >>
        THEN joinWith(nums, "-")
        ELSE << >>

BracketMatch(text, i) == IF text[i] \in {"[", "]"} THEN i ELSE 0

\* \s+
SpacesMatch(text, i) ==
    IF IsSpace(text[i]) THEN SkipSpace(text, i) - 1 ELSE 0

\* the match of pattern `pat` that starts at i: its last index (0: none)
Match(pat, text, i) ==
    CASE pat = "ref" -> RefElementMatch(text, i)
      [] pat = "ref/" -> RefSelfClosingMatch(text, i)
      [] pat = "tag" -> TagMatch(text, i)
      [] pat = "link" -> LinkMatch(text, i)
      [] pat = "template" -> TemplateMatch(text, i)
      [] pat = "bracket" -> BracketMatch(text, i)
      [] pat = "spaces" -> SpacesMatch(text, i)

\* what re.sub puts in place of that match
Repl(pat, text, i, last) ==
    CASE pat = "link" -> LinkText(text, i, last)
      [] pat = "template" -> _tpl_repl(text, i, last)
      [] pat = "spaces" -> <<" ">>
      [] OTHER -> << >>

\* re.sub: the leftmost matches replaced, the rest copied
RECURSIVE Sub(_, _, _)
SubAt(pat, text, from, last) ==
    IF last # 0
    THEN Repl(pat, text, from, last) \o Sub(pat, text, last + 1)
    ELSE <<text[from]>> \o Sub(pat, text, from + 1)

Sub(pat, text, from) ==
    IF from > Len(text) THEN << >>
    ELSE SubAt(pat, text, from, Match(pat, text, from))

\* lines 110-133: the substitutions of _clean_wikitext, in their order
Substitutions == <<"ref", "ref/", "tag", "link", "template", "bracket", "spaces">>

RECURSIVE SubEach(_, _)
SubEach(pats, text) ==
    IF pats = << >> THEN text
    ELSE SubEach(Tail(pats), Sub(Head(pats), text, 1))

_clean_wikitext(text) ==
    IF text = << >> THEN << >>
    ELSE strip(SubEach(Substitutions, text))

---------------------------------------------------------------------------
(* wiki.py: _extract_infobox_wikitext, _parse_released_from_infobox,
   _is_disambiguation *)

\* an Optional[str]: None, or a string
Absent == [found |-> FALSE, text |-> << >>]
Found(t) == [found |-> TRUE, text |-> t]

\* wikitext.find("{{" + template_name), template_name = "Infobox song"
FindInfobox(text) ==
    LET at == {i \in 1..Len(text) - 2 :
                  text[i] = "{" /\ text[i + 1] = "{" /\ text[i + 2] = "Infobox song"}
    IN  IF at = {} THEN 0 ELSE SetMin(at)

\* \{\{\s*infobox\s+song under re.I: the start of the first match (0: none)
SearchInfobox(text) ==
    LET at == {i \in 1..Len(text) - 2 :
                  /\ text[i] = "{" /\ text[i + 1] = "{"
                  /\ SkipSpace(text, i + 2) <= Len(text)
                  /\ LowerOf(text[SkipSpace(text, i + 2)]) = "infobox song"}
    IN  IF at = {} THEN 0 ELSE SetMin(at)

\* the scan that stops at the first "}}", whatever the counter
RECURSIVE ScanTemplateFirstClose(_, _, _, _)
ScanTemplateFirstClose(text, idx, i, count) ==
    IF ~(i < Len(text)) THEN Absent
    ELSE IF text[i] = "}" /\ text[i + 1] = "}"
         THEN Found(SubSeq(text, idx, i + 1))
         ELSE ScanTemplateFirstClose(text, idx, i + 1, count)

\* lines 63-75: the scan from i with the counter at `count`
RECURSIVE ScanTemplate(_, _, _, _)
ScanTemplate(text, idx, i, count) ==
    IF ~(i < Len(text)) THEN Absent
    ELSE IF text[i] = "{" /\ text[i + 1] = "{"
         THEN ScanTemplate(text, idx, i + 2, count + 1)
    ELSE IF text[i] = "}" /\ text[i + 1] = "}"
         THEN IF count - 1 = 0 THEN Found(SubSeq(text, idx, i + 1))
              ELSE ScanTemplate(text, idx, i + 2, count - 1)
    ELSE ScanTemplate(text, idx, i + 1, count)

_extract_infobox_wikitext(wikitext) ==
    LET idx == IF FindInfobox(wikitext) # 0 THEN FindInfobox(wikitext)
               ELSE SearchInfobox(wikitext)
    IN  IF idx = 0 THEN Absent ELSE ScanTemplate(wikitext, idx, idx, 0)

\* str.splitlines()
RECURSIVE splitlines(_)
splitlines(text) ==
    IF text = << >> THEN << >>
    ELSE LET i == Find(text, "\n", 1)
         IN  IF i = 0 THEN <<text>>
             ELSE <<SubSeq(text, 1, i - 1)>>
                      \o splitlines(SubSeq(text, i + 1, Len(text)))

\* "\n".join(value_lines).strip()
JoinedValue(value_lines) == strip(joinWith(value_lines, "\n"))

\* the locals of _parse_released_from_infobox before the first line
ParseStart ==
    [key |-> << >>, artist_raw |-> << >>, value_lines |-> << >>, stopped |-> FALSE]

\* lines 87-88: the artist kept when an "artist" field is committed
CommitArtist(st) ==
    IF st.key # << >> /\ lower(st.key) = <<"artist">>
    THEN _clean_wikitext(JoinedValue(st.value_lines))
    ELSE st.artist_raw

\* lines 84-100: one pass of the loop over the lines
\* lines 86-96: a line that starts a field, the running field committed
StartField(st, parts, committed) ==
    IF st.key # << >> /\ lower(st.key) = <<"released">>
    THEN [st EXCEPT !.artist_raw = committed, !.stopped = TRUE]
    ELSE [key |-> strip(Head(parts)),
          artist_raw |-> committed,
          value_lines |-> <<strip(joinWith(Tail(parts), "="))>>,
          stopped |-> FALSE]

ParseStripped(st, stripped) ==
    IF stripped # << >> /\ Head(stripped) = "|"
    THEN StartField(st, split(Tail(stripped), "="), CommitArtist(st))
    ELSE IF st.key # << >>
         THEN [st EXCEPT !.value_lines = Append(st.value_lines, stripped)]
         ELSE st

ParseLine(st, line) == IF st.stopped THEN st ELSE ParseStripped(st, strip(line))

RECURSIVE ParseLines(_, _)
ParseLines(st, lines) ==
    IF lines = << >> THEN st
    ELSE ParseLines(ParseLine(st, Head(lines)), Tail(lines))

\* line 101: artist_raw == artist
ArtistAccepted(artist_raw, expected) == artist_raw = expected

\* lines 101-104: what is returned after the loop
ReleasedOf(st, expected) ==
    IF st.key # << >> /\ lower(st.key) = <<"released">>
                      /\ ArtistAccepted(st.artist_raw, expected)
    THEN _clean_wikitext(JoinedValue(st.value_lines))
    ELSE << >>

_parse_released_from_infobox(body, expected) ==
    ReleasedOf(ParseLines(ParseStart, splitlines(body)), expected)

\* "disambiguation" in title.lower(), for a category title
IsDisambiguationCategory(c) ==
    \E i \in 1..Len(c) : LowerOf(c[i]) = "disambiguation"

\* "disambig" anywhere in the content, in a template or not
HasDisambigAnywhere(content) ==
    \E j \in 1..Len(content) :
        LowerOf(content[j]) \in {"disambig", "disambiguation"}

\* re.search(r"\{\{[^}]*disambig", content, flags=re.I)
HasDisambigTemplate(content) ==
    \E i \in 1..Len(content) - 2 :
        /\ content[i] = "{" /\ content[i + 1] = "{"
        /\ \E j \in (i + 2)..Len(content) :
              /\ LowerOf(content[j]) \in {"disambig", "disambiguation"}
              /\ \A k \in (i + 2)..(j - 1) : content[k] # "}"

_is_disambiguation(p) ==
    \/ \E n \in 1..Len(p.categories) :
           IsDisambiguationCategory(p.categories[n])
    \/ p.kind = "wikitext" /\ HasDisambigTemplate(p.text)

---------------------------------------------------------------------------
(* Inputs: the tags of the file and the answers of the external services *)

MaxTitles == 2       \* longest title list an opensearch answer holds
MaxRecordings == 2   \* most recordings a recording-search answer holds

Exts == {".flac", ".mp3", ".wav", ".txt"}

\* audio.get('artist'): absent, [""], ["A"], ["A", "B"]
ArtistTags == {<< >>, << << >> >>, << <<"A">> >>, << <<"A">>, <<"B">> >>}

\* audio.get('title'): absent, [""], ["T"], ["T (live)"], ["T (2011 Remaster)"]
TitleTags == {<< >>, << << >> >>, << <<"T">> >>,
              << <<"T", " ", "(", "live", ")">> >>,
              << <<"T", " ", "(", "2", "0", "1", "1", " ", "Remaster", ")">> >>}

\* audio.get('copyright', [''])[0]: "", "c 1998", "2010a"
CopyrightTexts == {<< >>, <<"c", " ", "1", "9", "9", "8">>,
                   <<"2", "0", "1", "0", "a">>}

\* audio.get('date', [''])[0]: "", "2005", "1850-01", "205"
DateTexts == {<< >>, <<"2", "0", "0", "5">>,
              <<"1", "8", "5", "0", "-", "0", "1">>, <<"2", "0", "5">>}

NoTag == [ext |-> ".txt", readable |-> TRUE, artist |-> << >>,
          title |-> << >>, copyright |-> << >>, date |-> << >>]

\* a tagged file: every artist and title with one date, every copyright and
\* date with one artist and title
TaggedFiles ==
    [ext : {".flac"}, readable : {TRUE}, artist : ArtistTags,
     title : TitleTags, copyright : {<< >>}, date : {<<"2", "0", "0", "5">>}]
    \cup [ext : {".mp3"}, readable : {TRUE}, artist : {<< <<"A">> >>},
          title : {<< <<"T">> >>}, copyright : CopyrightTexts, date : DateTexts]

Tags ==
    {[NoTag EXCEPT !.ext = e, !.readable = r] : e \in Exts, r \in BOOLEAN}
    \cup TaggedFiles

\* an infobox page: {{Infobox song\n|artist=<a>\n|released=<r>\n}}
InfoboxPage(a, r) ==
    <<"{", "{", "Infobox song", "\n", "|", "artist", "=">> \o a
    \o <<"\n", "|", "released", "=">> \o r \o <<"\n", "}", "}">>

PageTexts ==
    { InfoboxPage(<<"A">>, <<"1", "9", "9", "8">>),
      InfoboxPage(<<"B">>, <<"1", "9", "7", "7">>),
      InfoboxPage(<<"A">>, <<"2", "0", "1", "0", "<", "ref", ">",
                             "1", "9", "7", "8", "<", "/", "ref", ">">>),
      InfoboxPage(<<"A">>, << >>),
      <<"{", "{", "Infobox song", "\n", "|", "artist", "=", "A", "\n", "}", "}">> }

\* the ways a page request fails: an HTTP 503, any other error
PageFailures == {"503", "fail"}

\* a page answer: a failure (an HTTP 503 or another error), no such page
\* ("missing"), a page without revisions, or a page with its categories and
\* wikitext
PageResponse(k, c, t) == [kind |-> k, categories |-> c, text |-> t]
NoPage == PageResponse("none", << >>, << >>)

\* what the revisions query of main.py can answer
PageResponses ==
    {PageResponse(k, << >>, << >>) : k \in PageFailures \cup {"norevisions", "wikitext"}}
    \cup {PageResponse("wikitext", << >>, t) : t \in PageTexts}

\* what _fetch_page_info of wiki.py can answer
WikiPageResponses ==
    {PageResponse(k, << >>, << >>) : k \in PageFailures \cup {"missing", "norevisions"}}
    \cup {PageResponse("wikitext", << >>, t) : t \in PageTexts}
    \cup { PageResponse("wikitext", << <<"disambiguation">> >>,
                        InfoboxPage(<<"A">>, <<"1", "9", "9", "8">>)),
           PageResponse("wikitext", << >>, <<"{", "{", "disambig", "}", "}">>),
           PageResponse("wikitext", << >>,
                        <<"{", "{", "Infobox song", "\n", "|", "released", "=",
                          "1", "9", "9", "8">>) }

\* the arguments of get_song_release_date: T, "T"; A, A/B, ""
WikiTitles == {<<"T">>, <<"\"", "T", "\"">>}
WikiArtists == {<<"A">>, <<"A", "/", "B">>, << >>}

PageNames == <<"P1", "P2", "P3", "P4">>

\* data[1] of an opensearch answer
TitleLists == {SubSeq(PageNames, 1, n) : n \in 0..MaxTitles}

Release(d, rg) == [date |-> d, release_group |-> rg]
Recording(frd, rels) == [first_release_date |-> frd, releases |-> rels]

RecordingSamples ==
    { Recording(<<"1", "9", "9", "9", "-", "0", "3">>,
                <<Release(<< >>, TRUE)>>),
      Recording(<< >>, <<Release(<< >>, TRUE),
                         Release(<<"1", "9", "8", "5">>, TRUE)>>),
      Recording(<<"1", "9", "9", "0">>, << >>),
      Recording(<<"1", "9", "8", "0">>,
                <<Release(<<"1", "9", "8", "0">>, FALSE)>>) }

RECURSIVE SeqsUpTo(_, _)
SeqsUpTo(S, n) ==
    IF n = 0 THEN {<< >>}
    ELSE LET shorter == SeqsUpTo(S, n - 1)
         IN  shorter \cup {Append(q, x) : q \in shorter, x \in S}

\* data.get("recordings", [])
RecordingLists == SeqsUpTo(RecordingSamples, MaxRecordings)

\* how a request to the recording database can fail
MbFailures == {"reset", "503", "error"}

---------------------------------------------------------------------------
(* main.py: get_audio_metadata and the steps it calls *)

\* ' & '.join(l)
RECURSIVE join(_)
join(l) ==
    IF l = << >> THEN << >>
    ELSE IF Len(l) = 1 THEN l[1]
    ELSE l[1] \o <<" ", "&", " ">> \o join(Tail(l))

\* lines 243-269: artist, title and the seed year read from the file
TagArtist(t) ==
    IF t.ext = ".wav" THEN <<".wav">>
    ELSE IF t.artist = << >> THEN <<"Unknown Artist">> ELSE join(t.artist)

TagTitle(t) ==
    IF t.ext = ".wav" THEN << >>
    ELSE _strip_title_parenthetical_terms(
             IF t.title = << >> THEN <<"Unknown Title">> ELSE t.title[1])

\* the copyright year preferred to the date year, the two not compared
TagYearCopyrightFirst(t) ==
    IF t.ext = ".wav" THEN << >>
    ELSE IF _extract_year_from_text(t.copyright) # << >>
         THEN _extract_year_from_text(t.copyright)
    ELSE _extract_year(t.date)

TagYear(t) ==
    IF t.ext = ".wav" THEN << >>
    ELSE LET copyright_year == _extract_year_from_text(t.copyright)
             date_year == _extract_year(t.date)
             year_candidates == NonEmpty(<<copyright_year, date_year>>)
         IN  IF year_candidates # << >> THEN min(year_candidates) ELSE << >>

\* the external candidate alone, the seed year left out of the comparison
FinalYearExternalOnly(y, wy, my) ==
    IF wy # << >> THEN wy ELSE IF my # << >> THEN my ELSE y

\* lines 274-283: the year chosen among the candidates
FinalYear(y, wy, my) ==
    LET chosen == IF wy # << >> THEN min(NonEmpty(<<y, wy>>))
                  ELSE IF my # << >> THEN min(NonEmpty(<<y, my>>))
                  ELSE y
    IN  IF chosen # << >> /\ ~isdigit(chosen) THEN << >> ELSE chosen

\* one history entry: the step, what it was about, how it ended
Event(op, arg, outcome) == <<op, arg, outcome>>

\* lines 274-285 with the candidates `wy` and `my` of the two lookups
ReturnTuple(wy, my) ==
    /\ musicbrainz_year' = my
    /\ year' = FinalYear(year, wy, my)
    /\ result' = Tuple(strip(artist), strip(title), strip(year'))
    /\ pc' = "done"

\* lines 286-288: an exception inside the try of get_audio_metadata
ReturnNone ==
    /\ result' = None
    /\ pc' = "done"

\* the recording database asked whatever the Wikipedia step gave
WikipediaReturnsThenAsks(wy) ==
    /\ wikipedia_year' = wy
    /\ pc' = "sleep"
    /\ UNCHANGED <<year, musicbrainz_year, result>>

\* lines 273-276 once fetch_wikipedia_released_year has returned `wy`
WikipediaReturns(wy) ==
    /\ wikipedia_year' = wy
    /\ IF wy # << >>
       THEN ReturnTuple(wy, musicbrainz_year)
       ELSE /\ pc' = "sleep"
            /\ UNCHANGED <<year, musicbrainz_year, result>>

\* a lookup skipped for an empty title only
EmptyTitleOnly(a, t) == t = << >>

\* lines 112 and 183: if not artist or not title: return ""
EmptyArgument(a, t) == a = << >> \/ t = << >>

\* lines 241-273, 111-113, 182-184: read the tags; with an empty artist or
\* title both lookups return "" at once
ReadTags ==
    /\ UNCHANGED server
    /\ pc = "start"
    /\ UNCHANGED <<tag, titles, page, infobox, released, attempt, data, log>>
    /\ IF tag.ext = ".txt" \/ ~tag.readable
       THEN /\ ReturnNone
            /\ UNCHANGED <<artist, title, year, wikipedia_year, musicbrainz_year>>
       ELSE /\ artist' = TagArtist(tag)
            /\ title' = TagTitle(tag)
            /\ IF EmptyArgument(strip(artist'), strip(title'))
               THEN /\ wikipedia_year' = << >>
                    /\ musicbrainz_year' = << >>
                    /\ year' = FinalYear(TagYear(tag), << >>, << >>)
                    /\ result' = Tuple(strip(artist'), strip(title'), strip(year'))
                    /\ pc' = "done"
               ELSE /\ year' = TagYear(tag)
                    /\ pc' = "opensearch1"
                    /\ UNCHANGED <<wikipedia_year, musicbrainz_year, result>>

SearchOutcome(r) ==
    IF r.failed THEN "fail"
    ELSE IF r.titles = << >> THEN "none"
    ELSE IF Len(r.titles) > 1 THEN "many" ELSE "one"

SearchResponses ==
    {[failed |-> TRUE, titles |-> << >>]}
    \cup {[failed |-> FALSE, titles |-> l] : l \in TitleLists}

\* lines 129-134: _opensearch(title)
Opensearch1 ==
    /\ UNCHANGED server
    /\ pc = "opensearch1"
    /\ \E r \in SearchResponses :
        /\ log' = Append(log, Event("opensearch", strip(title), SearchOutcome(r)))
        /\ titles' = r.titles
        /\ IF r.failed \/ r.titles = << >>
           THEN WikipediaReturns(<< >>)
           ELSE /\ pc' = IF Len(r.titles) > 1 THEN "opensearch2" ELSE "page"
                /\ UNCHANGED <<year, wikipedia_year, musicbrainz_year, result>>
    /\ UNCHANGED <<tag, artist, title, page, infobox, released, attempt, data>>

\* lines 135-137: _opensearch(f"{title} (song)")
Opensearch2 ==
    /\ UNCHANGED server
    /\ pc = "opensearch2"
    /\ \E r \in SearchResponses :
        /\ log' = Append(log, Event("opensearch",
                                    strip(title) \o <<" ", "(", "song", ")">>,
                                    SearchOutcome(r)))
        /\ titles' = r.titles
        /\ IF r.failed \/ r.titles = << >>
           THEN WikipediaReturns(<< >>)
           ELSE /\ pc' = IF Len(r.titles) > 1 THEN "opensearch3" ELSE "page"
                /\ UNCHANGED <<year, wikipedia_year, musicbrainz_year, result>>
    /\ UNCHANGED <<tag, artist, title, page, infobox, released, attempt, data>>

\* lines 138-142: _opensearch(f"{title} ({artist} song)")
Opensearch3 ==
    /\ UNCHANGED server
    /\ pc = "opensearch3"
    /\ \E r \in SearchResponses :
        /\ log' = Append(log, Event("opensearch",
                                    strip(title) \o <<" ", "(">> \o strip(artist)
                                        \o <<" ", "song", ")">>,
                                    SearchOutcome(r)))
        /\ titles' = r.titles
        /\ IF r.failed \/ r.titles = << >>
           THEN WikipediaReturns(<< >>)
           ELSE /\ pc' = "page"
                /\ UNCHANGED <<year, wikipedia_year, musicbrainz_year, result>>
    /\ UNCHANGED <<tag, artist, title, page, infobox, released, attempt, data>>

\* lines 143-179: the query for titles[0], the search for "released"
FetchPage ==
    /\ UNCHANGED server
    /\ pc = "page"
    /\ \E p \in PageResponses :
        /\ page' = p
        /\ log' = Append(log, Event("page", <<titles[1]>>, p.kind))
        /\ WikipediaReturns(IF p.kind \in PageFailures THEN << >> ELSE PageYear(p))
    /\ UNCHANGED <<tag, artist, title, titles, infobox, released, attempt, data>>

\* line 189: time.sleep(1)
Sleep ==
    /\ UNCHANGED server
    /\ pc = "sleep"
    /\ log' = Append(log, Event("sleep", <<"1">>, "slept"))
    /\ attempt' = 0
    /\ pc' = "request"
    /\ UNCHANGED <<tag, artist, title, year, wikipedia_year, musicbrainz_year,
                   titles, page, infobox, released, data, result>>

\* lines 191-195, 213-232: the request answered; the recordings are read
\* outside the try of fetch_musicbrainz_year
RequestAnswered ==
    /\ UNCHANGED server
    /\ pc = "request"
    /\ \E d \in RecordingLists :
        /\ data' = d
        /\ log' = Append(log, Event("musicbrainz", strip(title), "ok"))
        /\ IF BestYear(d, << >>).st = "raise"
           THEN /\ ReturnNone
                /\ UNCHANGED <<year, musicbrainz_year>>
           ELSE ReturnTuple(wikipedia_year, BestYear(d, << >>).year)
    /\ UNCHANGED <<tag, artist, title, wikipedia_year, titles, page, infobox,
                   released, attempt>>

\* a reset or a 503 retried on every attempt
ShouldRetryEveryAttempt(e, n) == e \in {"reset", "503"}

\* line 202: (is_reset or is_503) and attempt == 0
ShouldRetryAlways(e, n) == n = 0
ShouldRetry(e, n) == e \in {"reset", "503"} /\ n = 0

\* lines 196-211: the request failed; retried after a reset or a 503 of the
\* first attempt
RequestFailed ==
    /\ UNCHANGED server
    /\ pc = "request"
    /\ \E e \in MbFailures :
        /\ log' = Append(log, Event("musicbrainz", strip(title), e))
        /\ IF ShouldRetry(e, attempt)
           THEN /\ pc' = "retry"
                /\ UNCHANGED <<year, musicbrainz_year, result>>
           ELSE ReturnTuple(wikipedia_year, << >>)
    /\ UNCHANGED <<tag, artist, title, wikipedia_year, titles, page, infobox,
                   released, attempt, data>>

\* one second before the retry, whatever the failure was
RetryDelayOneSecond(e) == <<"1">>

\* lines 205-208: time.sleep(1) after a 503, time.sleep(0.5) after a reset
RetryDelay(e) == IF e = "503" THEN <<"1">> ELSE <<"0", ".", "5">>

\* lines 205-209: the delay before the second attempt
RetrySleep ==
    /\ UNCHANGED server
    /\ pc = "retry"
    /\ log' = Append(log, Event("sleep", RetryDelay(log[Len(log)][3]), "slept"))
    /\ attempt' = attempt + 1
    /\ pc' = "request"
    /\ UNCHANGED <<tag, artist, title, year, wikipedia_year, musicbrainz_year,
                   titles, page, infobox, released, data, result>>

---------------------------------------------------------------------------
(* wiki.py: get_song_release_date *)

\* str.strip(chars) for one character
RECURSIVE stripChar(_, _)
stripChar(s, c) ==
    IF s # << >> /\ Head(s) = c THEN stripChar(Tail(s), c)
    ELSE IF s # << >> /\ s[Len(s)] = c
         THEN stripChar(SubSeq(s, 1, Len(s) - 1), c)
         ELSE s

\* line 143: title.strip().strip('"').strip("'")
CleanTitle(t) == stripChar(stripChar(strip(t), "\""), "'")

\* line 178: re.sub(r"[\/\(\)]", "", artist).strip()
artist_for_title(a) == strip(SelectSeq(a, LAMBDA c : c \notin {"/", "(", ")"}))

alt1(t) == t \o <<" ", "(", "song", ")">>
alt2(t, a) == t \o <<" ", "(">> \o artist_for_title(a) \o <<" ", "song", ")">>

\* how a page answer is entered in the history
FetchOutcome(p) ==
    IF p.kind \in PageFailures \cup {"missing"} THEN p.kind
    ELSE IF _is_disambiguation(p) THEN "disambiguation" ELSE "found"

\* `return released` / `return ""`
ReturnString(r) ==
    /\ released' = r
    /\ result' = String
    /\ pc' = "done"

\* lines 151-160: what a page found gives
ExtractAndReturn(p, a) ==
    IF p.kind # "wikitext"
    THEN /\ ReturnString(<< >>)
         /\ UNCHANGED infobox
    ELSE /\ infobox' = _extract_infobox_wikitext(p.text)
         /\ ReturnString(IF infobox'.found
                         THEN _parse_released_from_infobox(infobox'.text, a)
                         ELSE << >>)

\* _fetch_page_info raised: get_song_release_date catches nothing
Raise ==
    /\ result' = Raised
    /\ pc' = "done"
    /\ UNCHANGED <<infobox, released>>

\* every page that exists counted as found, the verdict not asked for
FoundAnyPage(p) == p.kind # "missing"

\* a page counted as found only when it has revisions
FoundOnlyWithRevisions(p) == p.kind = "wikitext" /\ ~_is_disambiguation(p)

\* lines 148-149: a page was found and it is not a disambiguation page
FoundPage(p) == p.kind # "missing" /\ ~_is_disambiguation(p)

\* lines 147-160: the exact title
FetchExact ==
    /\ UNCHANGED server
    /\ pc = "fetch1"
    /\ \E p \in WikiPageResponses :
        /\ page' = p
        /\ log' = Append(log, Event("fetch", title, FetchOutcome(p)))
        /\ IF p.kind \in PageFailures THEN Raise
           ELSE IF FoundPage(p) THEN ExtractAndReturn(p, artist)
           ELSE /\ pc' = "fetch2"
                /\ UNCHANGED <<infobox, released, result>>
    /\ UNCHANGED <<tag, artist, title, year, wikipedia_year, musicbrainz_year,
                   titles, attempt, data>>

\* lines 163-174: "<title> (song)"
FetchSong ==
    /\ UNCHANGED server
    /\ pc = "fetch2"
    /\ \E p \in WikiPageResponses :
        /\ page' = p
        /\ log' = Append(log, Event("fetch", alt1(title), FetchOutcome(p)))
        /\ IF p.kind \in PageFailures THEN Raise
           ELSE IF p.kind # "missing" THEN ExtractAndReturn(p, artist)
           ELSE /\ pc' = "fetch3"
                /\ UNCHANGED <<infobox, released, result>>
    /\ UNCHANGED <<tag, artist, title, year, wikipedia_year, musicbrainz_year,
                   titles, attempt, data>>

\* lines 178-193: "<title> (<artist> song)"
FetchArtistSong ==
    /\ UNCHANGED server
    /\ pc = "fetch3"
    /\ \E p \in WikiPageResponses :
        /\ page' = p
        /\ log' = Append(log, Event("fetch", alt2(title, artist), FetchOutcome(p)))
        /\ IF p.kind \in PageFailures THEN Raise
           ELSE IF p.kind # "missing" THEN ExtractAndReturn(p, artist)
           ELSE /\ ReturnString(<< >>)
                /\ UNCHANGED infobox
    /\ UNCHANGED <<tag, artist, title, year, wikipedia_year, musicbrainz_year,
                   titles, attempt, data>>

---------------------------------------------------------------------------
(* The two entry points: get_audio_metadata(file_path) of main.py for one
   file of the folder, and get_song_release_date(title, artist) of wiki.py *)

\* ---------------------------------------------------------------------------
\* main.py: the HTTP server (serve_directory, MusicHandler.do_GET)
\* ---------------------------------------------------------------------------
\* the request threads ThreadingHTTPServer starts, one for each request
MaxHandlers == 2

Handlers == 1..MaxHandlers

\* the folders the dialog can return
Folders == {"F1", "F2"}

\* lines 305-314: the audio files of a folder, sorted
AudioFiles(folder) ==
    IF folder = "F1" THEN <<"a.flac", "b.mp3">> ELSE <<"c.flac">>

\* a request thread that has not been started
Idle ==
    [pc |-> "idle", event |-> FALSE, value |-> "", new_folder |-> "",
     audio_files |-> << >>, i |-> 0, flashcards |-> << >>,
     path |-> << >>, served |-> << >>]

\* lines 317-339: the cards of a folder, every file resolved to a tuple
Flashcards(folder) ==
    [k \in 1..Len(AudioFiles(folder)) |->
        [term |-> AudioFiles(folder)[k], definition |-> "tuple"]]

\* lines 505, 522-529, 435-444: the cards of the first folder written, the
\* state dict and the server after main()
ServerStarted ==
    /\ handlers = [h \in Handlers |-> Idle]
    /\ state = [music_dir |-> "F1", json_file |-> <<"F1", "flashcards.json">>]
    /\ runner = [calls |-> 0, connected |-> {}]
    /\ files = [f \in Folders |-> IF f = "F1" THEN Flashcards(f) ELSE << >>]

InitLocals ==
    /\ year = << >>
    /\ wikipedia_year = << >>
    /\ musicbrainz_year = << >>
    /\ titles = << >>
    /\ released = << >>
    /\ attempt = 0
    /\ data = << >>
    /\ log = << >>
    /\ result = Pending
    /\ ServerStarted

Init ==
    /\ InitLocals
    /\ page = NoPage
    /\ infobox = Absent
    /\ \/ /\ pc = "start"
          /\ tag \in Tags
          /\ artist = << >>
          /\ title = << >>
       \/ /\ pc = "fetch1"
          /\ tag = NoTag
          /\ title \in {CleanTitle(t) : t \in WikiTitles}
          /\ artist \in {strip(a) : a \in WikiArtists}

Next ==
    \/ ReadTags
    \/ Opensearch1
    \/ Opensearch2
    \/ Opensearch3
    \/ FetchPage
    \/ Sleep
    \/ RequestAnswered
    \/ RequestFailed
    \/ RetrySleep
    \/ FetchExact
    \/ FetchSong
    \/ FetchArtistSong

Spec == Init /\ [][Next]_vars

\* every call blocks for at most its timeout of 5 seconds (lines 122, 145,
\* 193) or the length of its sleep, on one control path: a step that can be
\* taken is taken
SpecFair == Spec /\ WF_vars(Next)

---------------------------------------------------------------------------
(* _extract_infobox_wikitext(wikitext) on its own, for every wikitext made
   of at most MaxPieces of the pieces below *)

MaxPieces == 5

Pieces ==
    { <<"{", "{">>, <<"}", "}">>, <<"{">>, <<"}">>,
      <<"Infobox song">>, <<"infobox song">>, <<" ">> }

RECURSIVE Flatten(_)
Flatten(ps) == IF ps = << >> THEN << >> ELSE Head(ps) \o Flatten(Tail(ps))

Wikitexts == {Flatten(ps) : ps \in SeqsUpTo(Pieces, MaxPieces)}

InitExtract ==
    /\ InitLocals
    /\ pc = "extract"
    /\ tag = NoTag
    /\ artist = << >>
    /\ title = << >>
    /\ page \in {PageResponse("wikitext", << >>, t) : t \in Wikitexts}
    /\ infobox = Absent

\* line 154: infobox = _extract_infobox_wikitext(content)
ExtractInfobox ==
    /\ UNCHANGED server
    /\ pc = "extract"
    /\ infobox' = _extract_infobox_wikitext(page.text)
    /\ pc' = "extracted"
    /\ UNCHANGED <<tag, artist, title, year, wikipedia_year, musicbrainz_year,
                   titles, page, released, attempt, data, log, result>>

SpecExtract == InitExtract /\ [][ExtractInfobox]_vars

---------------------------------------------------------------------------
(* _parse_released_from_infobox(infobox, artist) on its own, for every body
   of at most MaxLines of the lines below and every expected artist *)

MaxLines == 3

FieldLines ==
    { <<"|", "artist", "=", "A">>,
      <<"|", "artist", "=", "B">>,
      <<"|", " ", "Artist", " ", "=", " ", "[", "[", "A", "]", "]">>,
      <<"|", "released", "=", "1", "9", "9", "9">>,
      <<"|", "label", "=", "x">>,
      <<"B">> }

ExpectedArtists == {<< >>, <<"A">>, <<"B">>}

InitParse ==
    /\ InitLocals
    /\ pc = "parse"
    /\ tag = NoTag
    /\ title = << >>
    /\ page = NoPage
    /\ artist \in ExpectedArtists
    /\ infobox \in {Found(joinWith(ls, "\n")) : ls \in SeqsUpTo(FieldLines, MaxLines)}

\* line 156: released = _parse_released_from_infobox(infobox, artist)
ParseReleased ==
    /\ UNCHANGED server
    /\ pc = "parse"
    /\ released' = _parse_released_from_infobox(infobox.text, artist)
    /\ pc' = "parsed"
    /\ UNCHANGED <<tag, artist, title, year, wikipedia_year, musicbrainz_year,
                   titles, page, infobox, attempt, data, log, result>>

SpecParse == InitParse /\ [][ParseReleased]_vars

---------------------------------------------------------------------------
(* _is_disambiguation(page) on its own, for the category lists below and
   every wikitext made of at most MaxMarkerPieces of the pieces below *)

MaxMarkerPieces == 4

MarkerPieces ==
    { <<"{", "{">>, <<"{">>, <<"}">>, <<"disambig">>, <<"Disambiguation">>,
      <<"x">> }

CategoryLists ==
    { << >>,
      << <<"A", " ", "song", "s">> >>,
      << <<"Disambiguation", " ", "p", "a", "g", "e", "s">> >>,
      << <<"A", " ", "song", "s">>, <<"A", "l", "l", " ", "disambiguation">> >> }

InitDisambiguation ==
    /\ InitLocals
    /\ pc = "classify"
    /\ tag = NoTag
    /\ artist = << >>
    /\ title = << >>
    /\ infobox = Absent
    /\ page \in
          {PageResponse("wikitext", c, Flatten(ps)) :
               c \in CategoryLists, ps \in SeqsUpTo(MarkerPieces, MaxMarkerPieces)}
          \cup {PageResponse("norevisions", c, << >>) : c \in CategoryLists}

\* line 149: _is_disambiguation(page)
Classify ==
    /\ UNCHANGED server
    /\ pc = "classify"
    /\ result' = Boolean(_is_disambiguation(page))
    /\ pc' = "classified"
    /\ UNCHANGED <<tag, artist, title, year, wikipedia_year, musicbrainz_year,
                   titles, page, infobox, released, attempt, data, log>>

SpecDisambiguation == InitDisambiguation /\ [][Classify]_vars

\* ---------------------------------------------------------------------------
\* _strip_title_parenthetical_terms on its own: the title tag of a file,
\* normalised as lines 246-248 do, and the result normalised once more
\* ---------------------------------------------------------------------------
MaxTitlePieces == 6

TitlePieces == {"(", ")", " ", "Live", "x"}

RawTitles == SeqsUpTo(TitlePieces, MaxTitlePieces)

InitNormalize ==
    /\ InitLocals
    /\ pc = "normalize"
    /\ tag \in [ext : {".flac"}, readable : {TRUE}, artist : {<< <<"A">> >>},
                title : {<<t>> : t \in RawTitles}, copyright : {<< >>},
                date : {<< >>}]
    /\ artist = << >>
    /\ title = tag.title[1]
    /\ page = NoPage
    /\ infobox = Absent

\* lines 246-248: title = _strip_title_parenthetical_terms(title)
Normalize ==
    /\ UNCHANGED server
    /\ pc \in {"normalize", "normalized"}
    /\ title' = _strip_title_parenthetical_terms(title)
    /\ log' = Append(log, Event("normalize", title, title'))
    /\ pc' = IF pc = "normalize" THEN "normalized" ELSE "renormalized"
    /\ UNCHANGED <<tag, artist, year, wikipedia_year, musicbrainz_year, titles,
                   page, infobox, released, attempt, data, result>>

SpecNormalize == InitNormalize /\ [][Normalize]_vars

\* ---------------------------------------------------------------------------
\* _extract_year_from_text and _extract_earliest_year_from_text on their own,
\* given any Python value: a str, an int, None or a list of one str
\* ---------------------------------------------------------------------------
MaxYearPieces == 4

YearPieces ==
    { <<"1", "9", "0", "0">>, <<"2", "0", "9", "9">>, <<"1", "8", "9", "9">>,
      <<"2", "1", "0", "0">>, <<" ">>, <<"a">>, <<"1">>, <<"-">> }

Str(s) == [type |-> "str", text |-> s, num |-> 0]
PyInt(n) == [type |-> "int", text |-> << >>, num |-> n]
NoneValue == [type |-> "NoneType", text |-> << >>, num |-> 0]
List1(s) == [type |-> "list", text |-> s, num |-> 0]

IntSamples == {0, 7, 1999, 2100, 19991, 0 - 1900}

YearInputs ==
    {Str(Flatten(ps)) : ps \in SeqsUpTo(YearPieces, MaxYearPieces)}
    \cup {PyInt(n) : n \in IntSamples}
    \cup {NoneValue}
    \cup {List1(s) : s \in {<< >>, <<"2", "0", "9", "9">>, <<"a", "1", "9", "0", "0">>}}

\* the truth value of a Python value: `not text` is its negation
bool(v) ==
    CASE v.type = "str" -> v.text # << >>
      [] v.type = "int" -> v.num # 0
      [] v.type = "NoneType" -> FALSE
      [] v.type = "list" -> TRUE

\* str(n) of an int
RECURSIVE IntStr(_)
IntStr(n) ==
    IF n < 0 THEN <<"-">> \o IntStr(0 - n)
    ELSE IF n < 10 THEN <<CHOOSE c \in Digit : DigitVal(c) = n>>
    ELSE IntStr(n \div 10) \o <<CHOOSE c \in Digit : DigitVal(c) = n % 10>>

\* the value handed to the pattern as it is, str() left out
strOmitted(v) == v

\* str(text): a str is itself, an int its decimal digits, a list of one str
\* the repr of that str between brackets
str(v) ==
    CASE v.type = "str" -> v
      [] v.type = "int" -> Str(IntStr(v.num))
      [] v.type = "NoneType" -> Str(<<"N", "o", "n", "e">>)
      [] v.type = "list" -> Str(<<"[", "'">> \o v.text \o <<"'", "]">>)

InitYears ==
    /\ year = << >>
    /\ wikipedia_year = << >>
    /\ musicbrainz_year = << >>
    /\ titles = << >>
    /\ attempt = 0
    /\ data = << >>
    /\ log = << >>
    /\ result = Pending
    /\ ServerStarted
    /\ pc = "years"
    /\ tag = NoTag
    /\ artist = << >>
    /\ title = << >>
    /\ page = NoPage
    /\ infobox = Absent
    /\ released \in YearInputs

\* lines 89-100: both functions applied to one value; re.search and
\* re.findall raise TypeError when handed anything but a str
ExtractYears ==
    /\ UNCHANGED server
    /\ pc = "years"
    /\ pc' = "extracted"
    /\ IF ~bool(released)
       THEN /\ year' = << >>
            /\ wikipedia_year' = << >>
            /\ result' = String
       ELSE IF str(released).type # "str"
       THEN /\ result' = Raised
            /\ UNCHANGED <<year, wikipedia_year>>
       ELSE /\ year' = _extract_year_from_text(str(released).text)
            /\ wikipedia_year' = _extract_earliest_year_from_text(str(released).text)
            /\ result' = String
    /\ UNCHANGED <<tag, artist, title, musicbrainz_year, titles, page, infobox,
                   released, attempt, data, log>>

SpecYears == InitYears /\ [][ExtractYears]_vars

\* ---------------------------------------------------------------------------
\* _clean_wikitext on its own: the raw value of a field, cleaned as line 109
\* does
\* ---------------------------------------------------------------------------
MaxCleanPieces == 5

CleanPieces ==
    { <<"{", "{">>, <<"}", "}">>, <<"Start date">>, <<"|">>,
      <<"1", "9", "9", "7">>, <<"x">> }

RawValues == {Flatten(ps) : ps \in SeqsUpTo(CleanPieces, MaxCleanPieces)}

InitClean ==
    /\ InitLocals
    /\ pc = "clean"
    /\ tag = NoTag
    /\ artist = << >>
    /\ title = << >>
    /\ page = NoPage
    /\ infobox \in {Found(raw) : raw \in RawValues}

\* lines 108-109: return _clean_wikitext(raw)
Clean ==
    /\ UNCHANGED server
    /\ pc = "clean"
    /\ released' = _clean_wikitext(infobox.text)
    /\ pc' = "cleaned"
    /\ UNCHANGED <<tag, artist, title, year, wikipedia_year, musicbrainz_year,
                   titles, page, infobox, attempt, data, log, result>>

SpecClean == InitClean /\ [][Clean]_vars

\* ---------------------------------------------------------------------------
\* The server after main(): every request runs do_GET in a thread of its own
\* ---------------------------------------------------------------------------
\* the variables of get_audio_metadata and get_song_release_date
locals == <<pc, tag, artist, title, year, wikipedia_year, musicbrainz_year,
            titles, page, infobox, released, attempt, data, log, result>>

InitServer ==
    /\ InitLocals
    /\ pc = "serve"
    /\ tag = NoTag
    /\ artist = << >>
    /\ title = << >>
    /\ page = NoPage
    /\ infobox = Absent

\* lines 383-399: GET /change-folder; on_selected is connected and
\* choose_folder queued for the thread of the window
ChangeFolderRequest(h) ==
    /\ handlers[h].pc = "idle"
    /\ handlers' = [handlers EXCEPT ![h].pc = "wait"]
    /\ runner' = [calls |-> runner.calls + 1,
                  connected |-> runner.connected \cup {h}]
    /\ UNCHANGED <<state, files, locals>>

\* the paths requested besides /change-folder
RequestPaths == {"/flashcards.json", "/music/a.flac", "/index.html"}

\* lines 420, 423-430: any other path; translate_path reads the state
translate_path(h) ==
    /\ handlers[h].pc = "idle"
    /\ \E request_path \in RequestPaths :
        handlers' = [handlers EXCEPT
                        ![h].pc = "translated",
                        ![h].path =
                            IF request_path = "/music/a.flac"
                            THEN <<state.music_dir, "a.flac">>
                            ELSE IF request_path = "/flashcards.json"
                            THEN state.json_file
                            ELSE <<"base_dir", "index.html">>]
    /\ UNCHANGED <<state, runner, files, locals>>

\* line 420: super().do_GET() opens the translated path and sends the file,
\* or 404 when there is none
SendHead(h) ==
    /\ handlers[h].pc = "translated"
    /\ handlers' = [handlers EXCEPT
                        ![h].pc = "responded",
                        ![h].served =
                            IF handlers[h].path[2] = "flashcards.json"
                            THEN files[handlers[h].path[1]]
                            ELSE << >>]
    /\ UNCHANGED <<state, runner, files, locals>>

\* lines 547-550, 392-394: the dialog runs in the thread of the window; the
\* signal reaches every on_selected that is connected
choose_folder ==
    /\ runner.calls > 0
    /\ \E folder \in Folders \cup {""} :
        handlers' = [h \in Handlers |->
                        IF h \in runner.connected
                        THEN [handlers[h] EXCEPT !.value = folder, !.event = TRUE]
                        ELSE handlers[h]]
    /\ runner' = [runner EXCEPT !.calls = runner.calls - 1]
    /\ UNCHANGED <<state, files, locals>>

\* lines 400-405: event.wait returns, the event set or the 120 seconds
\* over; state["music_dir"] = new_folder
EventWaitReturns(h) ==
    /\ handlers[h].pc = "wait"
    /\ runner' = [runner EXCEPT !.connected = runner.connected \ {h}]
    /\ IF handlers[h].value # ""
       THEN /\ state' = [state EXCEPT !.music_dir = handlers[h].value]
            /\ handlers' = [handlers EXCEPT
                                ![h].new_folder = handlers[h].value,
                                ![h].pc = "switched"]
       ELSE /\ handlers' = [handlers EXCEPT ![h].pc = "respond"]
            /\ UNCHANGED state
    /\ UNCHANGED <<files, locals>>

\* lines 406-408, 305-314: state["json_file"] is set, the audio files of
\* the folder are listed
SetJsonFile(h) ==
    /\ handlers[h].pc = "switched"
    /\ state' = [state EXCEPT
                    !.json_file = <<handlers[h].new_folder, "flashcards.json">>]
    /\ handlers' = [handlers EXCEPT
                        ![h].audio_files = AudioFiles(handlers[h].new_folder),
                        ![h].i = 1,
                        ![h].pc = "scan"]
    /\ UNCHANGED <<runner, files, locals>>

\* lines 317-318: metadata = get_audio_metadata(file_path) is called
GetAudioMetadata(h) ==
    /\ handlers[h].pc = "scan"
    /\ handlers[h].i <= Len(handlers[h].audio_files)
    /\ handlers' = [handlers EXCEPT ![h].pc = "resolve"]
    /\ UNCHANGED <<state, runner, files, locals>>

\* lines 318-339: get_audio_metadata has returned, a tuple or None; the
\* card of the file is appended
MetadataReturned(h) ==
    /\ handlers[h].pc = "resolve"
    /\ \E metadata \in {"tuple", "None"} :
        handlers' = [handlers EXCEPT
                        ![h].flashcards =
                            Append(handlers[h].flashcards,
                                   [term |-> handlers[h].audio_files[handlers[h].i],
                                    definition |-> metadata]),
                        ![h].i = handlers[h].i + 1,
                        ![h].pc = "scan"]
    /\ UNCHANGED <<state, runner, files, locals>>

\* lines 409-412: the cards, when there are any, are written to
\* state["json_file"] and the request is answered 204
Respond(h) ==
    /\ \/ /\ handlers[h].pc = "respond"
          /\ UNCHANGED files
       \/ /\ handlers[h].pc = "scan"
          /\ handlers[h].i > Len(handlers[h].audio_files)
          /\ files' = IF handlers[h].flashcards = << >> THEN files
                      ELSE [files EXCEPT
                               ![state.json_file[1]] = handlers[h].flashcards]
    /\ handlers' = [handlers EXCEPT ![h].pc = "responded"]
    /\ UNCHANGED <<state, runner, locals>>

NextServer ==
    \/ \E h \in Handlers : ChangeFolderRequest(h)
    \/ \E h \in Handlers : translate_path(h)
    \/ \E h \in Handlers : SendHead(h)
    \/ choose_folder
    \/ \E h \in Handlers : EventWaitReturns(h)
    \/ \E h \in Handlers : SetJsonFile(h)
    \/ \E h \in Handlers : GetAudioMetadata(h)
    \/ \E h \in Handlers : MetadataReturned(h)
    \/ \E h \in Handlers : Respond(h)

SpecServer == InitServer /\ [][NextServer]_vars

---------------------------------------------------------------------------
(* Properties of the per-track run *)

\* value of a string of digits
RECURSIVE NumVal(_)
NumVal(s) ==
    IF s = << >> THEN 0
    ELSE 10 * NumVal(SubSeq(s, 1, Len(s) - 1)) + DigitVal(s[Len(s)])

EventsOf(ops) == SelectSeq(log, LAMBDA e : e[1] \in ops)
MbRequests == EventsOf({"musicbrainz"})
WikiRequests == EventsOf({"opensearch", "page"})

\* positions at which the Wikipedia step has not returned yet
InWikipediaStep ==
    pc \in {"start", "opensearch1", "opensearch2", "opensearch3", "page",
            "fetch1", "fetch2", "fetch3"}

Returned == pc = "done" /\ result.kind = "tuple"

Y1998 == <<"1", "9", "9", "8">>
Y2005 == <<"2", "0", "0", "5">>
Y1850 == <<"1", "8", "5", "0">>
Y1977 == <<"1", "9", "7", "7">>

C2_MusicbrainzOnlyAfterEmptyWikipedia ==
    /\ MbRequests # << >> => ~InWikipediaStep /\ wikipedia_year = << >>
    /\ \A i, j \in 1..Len(log) :
           log[i][1] = "musicbrainz" /\ log[j][1] \in {"opensearch", "page"}
               => j < i
    /\ wikipedia_year # << >> => MbRequests = << >>

\* a recording-database request was sent after a page was fetched in vain
C2_Witness ==
    /\ MbRequests # << >>
    /\ \E j \in 1..Len(log) : log[j][1] = "page"
    /\ wikipedia_year = << >>

\* C3: no failure of the Wikipedia step or of the recording-database step
\* aborts the track: a readable file of a supported format always yields a
\* tuple that carries the artist, the title and at least the seed year.
C3_FailureNeverAbortsTrack ==
    (pc = "done" /\ tag.readable /\ tag.ext # ".txt") =>
        /\ result.kind = "tuple"
        /\ result.artist = strip(TagArtist(tag))
        /\ result.title = strip(TagTitle(tag))
        /\ TagYear(tag) # << >> => result.year # << >>

\* C4: at most two requests per call; a second one is sent exactly when the
\* first failed with a reset or a 503; a call whose last request failed
\* returns the empty string.
C4_RetryOnceOnResetOr503 ==
    /\ Len(MbRequests) <= 2
    /\ Len(MbRequests) = 2 => MbRequests[1][3] \in {"reset", "503"}
    /\ (pc = "done" /\ MbRequests # << >> /\ MbRequests[1][3] \in {"reset", "503"})
           => Len(MbRequests) = 2
    /\ (pc = "done" /\ MbRequests # << >>
            /\ MbRequests[Len(MbRequests)][3] # "ok")
           => musicbrainz_year = << >> /\ result.kind = "tuple"

\* a 503, then a second request that was answered
C4_Witness ==
    /\ pc = "done"
    /\ Len(MbRequests) = 2
    /\ MbRequests[1][3] = "503"
    /\ MbRequests[2][3] = "ok"

\* the year values of a run
YearValues ==
    {year, wikipedia_year, musicbrainz_year, result.year}
    \cup IF pc = "start" THEN {}
         ELSE {_extract_year_from_text(tag.copyright), _extract_year(tag.date)}

FourDigits(y) == Len(y) = 4 /\ isdigit(y)
InRange(y) == 1900 <= NumVal(y) /\ NumVal(y) <= 2099

---------------------------------------------------------------------------
(* Properties of the infobox parser and of the span extractor *)

\* the lines of the body handed to the parser
BodyLines == splitlines(infobox.text)

IsFieldLine(l) == strip(l) # << >> /\ Head(strip(l)) = "|"

\* the name of the field a line starts, in lower case
FieldName(l) == lower(strip(Head(split(Tail(strip(l)), "="))))

\* the lines of the field that starts at line j: up to the next field line
FieldEnd(j) ==
    LET later == {k \in j + 1..Len(BodyLines) : IsFieldLine(BodyLines[k])}
    IN  IF later = {} THEN Len(BodyLines) ELSE SetMin(later) - 1

\* the cleaned value of the field that starts at line j
FieldValue(j) ==
    LET first == split(Tail(strip(BodyLines[j])), "=")
        more == [k \in 1..FieldEnd(j) - j |-> strip(BodyLines[j + k])]
    IN  _clean_wikitext(
            strip(joinWith(<<strip(joinWith(Tail(first), "="))>> \o more, "\n")))

IsField(j, name) == IsFieldLine(BodyLines[j]) /\ FieldName(BodyLines[j]) = <<name>>

\* C6: the parser returns a non-empty value only if an "artist" field
\* stands before the "released" field of the body and its cleaned value
\* equals the expected artist; otherwise it returns the empty string.
C6_ReleasedOnlyWithMatchingArtist ==
    (pc = "parsed" /\ released # << >>) =>
        \E j, k \in 1..Len(BodyLines) :
            /\ j < k
            /\ IsField(j, "artist")
            /\ IsField(k, "released")
            /\ FieldValue(j) = artist

\* the (position, counter) pairs the brace scan goes through on s:
\* "{{" adds one, "}}" takes one away, anything else is stepped over
RECURSIVE Visits(_, _, _)
Visits(s, i, c) ==
    IF i > Len(s) THEN {<<i, c>>}
    ELSE IF i = Len(s) THEN {<<i, c>>, <<i + 1, c>>}
    ELSE {<<i, c>>} \cup
         (IF s[i] = "{" /\ s[i + 1] = "{" THEN Visits(s, i + 2, c + 1)
          ELSE IF s[i] = "}" /\ s[i + 1] = "}" THEN Visits(s, i + 2, c - 1)
          ELSE Visits(s, i + 1, c))

\* where the template starts in the wikitext (0: nowhere)
InfoboxStart ==
    IF FindInfobox(page.text) # 0 THEN FindInfobox(page.text)
    ELSE SearchInfobox(page.text)

\* C7: a span returned starts where the template starts, its counter is
\* zero at both ends and strictly positive at every scan position strictly
\* inside; None is returned exactly when there is no template or its
\* counter never comes back to zero before the text ends.
C7_SpanBalanced ==
    pc = "extracted" =>
        IF infobox.found
        THEN LET span == infobox.text
                 V == Visits(span, 1, 0)
             IN  /\ InfoboxStart # 0
                 /\ span = SubSeq(page.text, InfoboxStart,
                                  InfoboxStart + Len(span) - 1)
                 /\ <<Len(span) + 1, 0>> \in V
                 /\ \A v \in V : v[1] = 1 => v[2] = 0
                 /\ \A v \in V : (1 < v[1] /\ v[1] <= Len(span)) => v[2] > 0
        ELSE \/ InfoboxStart = 0
             \/ \A v \in Visits(SubSeq(page.text, InfoboxStart, Len(page.text)),
                                 1, 0) : v[1] > 1 => v[2] # 0

\* a span was returned that holds a nested template
C7_Witness ==
    /\ pc = "extracted"
    /\ infobox.found
    /\ \E i \in 3..Len(infobox.text) - 3 :
           infobox.text[i] = "{" /\ infobox.text[i + 1] = "{"

\* the text ended with the counter above zero and None was returned
C7_WitnessMalformed ==
    /\ pc = "extracted"
    /\ ~infobox.found
    /\ InfoboxStart # 0

---------------------------------------------------------------------------
(* Properties of the Wikipedia step *)

\* the title lookups of the step, in their order
TitleLookups == EventsOf({"opensearch", "fetch"})

\* a lookup that reported no page
CameBackMissing(e) == e[3] \in {"none", "missing"}

\* a lookup that reported one page that is not a disambiguation page
CameBackFound(e) == e[3] \in {"one", "found"}

\* C8: the exact title is looked up first; "<title> (song)" is looked up
\* exactly when that reported no page, and "<title> (<artist> song)", the
\* artist without slashes and parentheses, exactly when that reported no
\* page either.
C8_TitleVariantChain ==
    LET L == TitleLookups
    IN  /\ Len(L) >= 1 => L[1][2] = strip(title)
        /\ Len(L) >= 2 =>
               CameBackMissing(L[1]) /\ L[2][2] = alt1(strip(title))
        /\ Len(L) >= 3 =>
               CameBackMissing(L[2])
                   /\ L[3][2] = alt2(strip(title), strip(artist))
        /\ (~InWikipediaStep /\ Len(L) \in {1, 2}) => ~CameBackMissing(L[Len(L)])

\* the page of the last answer has no "released" field to read
NoReleasedField ==
    \/ page.kind # "wikitext"
    \/ \A i \in 1..Len(page.text) : LowerOf(page.text[i]) # "released"

C10_CandidateArtistValidated ==
    (result.kind = "tuple" /\ wikipedia_year # << >>) =>
        /\ _extract_infobox_wikitext(page.text).found
        /\ _parse_released_from_infobox(
               _extract_infobox_wikitext(page.text).text, strip(artist)) # << >>

---------------------------------------------------------------------------
(* Properties of the recording-database step *)

\* the year of one recording: its first-release-date or, if that gives no
\* year, the first of its releases that has a dated year
YearOfRecording(r) ==
    IF _extract_year(r.first_release_date) # << >>
    THEN _extract_year(r.first_release_date)
    ELSE FirstReleaseYear(r.releases)

\* the years of all the recordings answered
YearsOfRecordings == {YearOfRecording(data[i]) : i \in 1..Len(data)} \ {<< >>}

\* the last request was answered and the candidate was computed
MbAnswered ==
    /\ Returned
    /\ MbRequests # << >>
    /\ MbRequests[Len(MbRequests)][3] = "ok"

\* C11: the recording-database candidate is the numerically earliest year
\* over all the recordings answered, a recording without releases included.
C11_EarliestOverAllRecordings ==
    MbAnswered =>
        IF YearsOfRecordings = {} THEN musicbrainz_year = << >>
        ELSE /\ musicbrainz_year \in YearsOfRecordings
             /\ \A y \in YearsOfRecordings : NumVal(musicbrainz_year) <= NumVal(y)

---------------------------------------------------------------------------
(* Properties of the disambiguation test *)

\* some category title holds "disambiguation", in any case
CategoryNamesDisambiguation ==
    \E n \in 1..Len(page.categories) :
        \E i \in 1..Len(page.categories[n]) :
            LowerOf(page.categories[n][i]) = "disambiguation"

\* the positions of the wikitext at which a template opens
TemplateOpens == {i \in 1..Len(page.text) - 1 :
                     page.text[i] = "{" /\ page.text[i + 1] = "{"}

\* the wikitext holds "disambig", in any case, after a "{{" with no "}"
\* between the two
WikitextHasDisambigMarker ==
    /\ page.kind = "wikitext"
    /\ \E j \in 1..Len(page.text) :
          /\ LowerOf(page.text[j]) \in {"disambig", "disambiguation"}
          /\ \E i \in TemplateOpens :
                i + 1 < j /\ "}" \notin {page.text[k] : k \in (i + 2)..(j - 1)}

\* C12: a page is classified as a disambiguation page if and only if a
\* category title holds "disambiguation" or the wikitext holds a "disambig"
\* template marker, both in any case.
C12_DisambiguationIff ==
    pc = "classified" =>
        (result.kind = "True"
            <=> (CategoryNamesDisambiguation \/ WikitextHasDisambigMarker))

\* a page classified by its template marker alone
C12_Witness ==
    /\ pc = "classified"
    /\ result.kind = "True"
    /\ ~CategoryNamesDisambiguation
    /\ page.categories # << >>

\* ---------------------------------------------------------------------------
\* C13
\* ---------------------------------------------------------------------------
\* a "(" that follows another "(" with no ")" between them
Nested(t) ==
    \E i, j \in 1..Len(t) :
        /\ i < j
        /\ t[i] = "("
        /\ t[j] = "("
        /\ \A k \in i..j : t[k] # ")"

\* C13: normalising a title a second time changes nothing: the second
\* application returns the value the first one returned, for every title,
\* those with several, adjacent or nested parentheticals included.
C13_StripIdempotent ==
    pc = "renormalized" => log[2][3] = log[1][3]

\* the positions of a text that hold a term
TermsIn(t) == {i \in 1..Len(t) : LowerOf(t[i]) \in Terms}

\* a title with nested parentheticals from which the first application
\* removed a term, leaving a title that is not empty
C13_Witness ==
    /\ pc = "renormalized"
    /\ Nested(tag.title[1])
    /\ TermsIn(log[1][2]) # {}
    /\ TermsIn(log[1][3]) = {}
    /\ log[1][3] # << >>

\* ---------------------------------------------------------------------------
\* C14
\* ---------------------------------------------------------------------------
\* the index of the ")" that balances a "(" when `depth` are open at j (0: none)
RECURSIVE CloseOf(_, _, _)
CloseOf(t, j, depth) ==
    IF j > Len(t) THEN 0
    ELSE IF t[j] = "(" THEN CloseOf(t, j + 1, depth + 1)
    ELSE IF t[j] = ")"
         THEN IF depth = 1 THEN j ELSE CloseOf(t, j + 1, depth - 1)
    ELSE CloseOf(t, j + 1, depth)

\* the parenthetical clauses of a title: a "(" and the ")" that balances it
Parentheticals(t) ==
    {<<i, CloseOf(t, i + 1, 1)>> : i \in {k \in 1..Len(t) : t[k] = "(" /\ CloseOf(t, k + 1, 1) # 0}}

\* the content of a clause holds one of the terms, in any case
ContainsTerm(t, span) == \E k \in (span[1] + 1)..(span[2] - 1) : LowerOf(t[k]) \in Terms

\* the clause lies inside a clause that holds a term
InsideTermClause(t, span) ==
    \E outer \in Parentheticals(t) :
        /\ outer[1] < span[1]
        /\ span[2] < outer[2]
        /\ ContainsTerm(t, outer)

\* `piece` is a run of consecutive elements of `t`
Occurs(piece, t) ==
    \E k \in 1..(Len(t) - Len(piece) + 1) : SubSeq(t, k, k + Len(piece) - 1) = piece

\* C14: the normalised title holds no parenthetical clause whose content
\* contains one of the terms, and every clause of the tag title that contains
\* none of them (and is not part of a clause that does) is still in it,
\* untouched but for the collapsing of repeated whitespace.
C14_TermClausesRemovedOthersKept ==
    pc = "normalized" =>
        /\ \A span \in Parentheticals(title) : ~ContainsTerm(title, span)
        /\ \A span \in Parentheticals(tag.title[1]) :
               (~ContainsTerm(tag.title[1], span) /\ ~InsideTermClause(tag.title[1], span))
                   => Occurs(CollapseSpaces2(SubSeq(tag.title[1], span[1], span[2]), 1), title)

\* ---------------------------------------------------------------------------
\* C15
\* ---------------------------------------------------------------------------
\* the requests of get_audio_metadata that carry the title
TitleRequests == EventsOf({"opensearch", "musicbrainz"})

\* `p` is the beginning of `t`
StartsWith(t, p) == Len(p) <= Len(t) /\ SubSeq(t, 1, Len(p)) = p

\* the title tag "T (2011 Remaster)"
Remaster2011 == <<"T", " ", "(", "2", "0", "1", "1", " ", "Remaster", ")">>

\* every request carries the normalised tag title
RequestsCarryNormalizedTitle ==
    \A i \in 1..Len(TitleRequests) :
        StartsWith(TitleRequests[i][2], strip(TagTitle(tag)))

\* C15: every request of a track carries the title as the normaliser
\* returned it, and a file tagged "T (2011 Remaster)" is looked up as "T":
\* its requests carry no qualifier.
C15_LookedUpWithoutQualifier ==
    /\ RequestsCarryNormalizedTitle
    /\ (tag.title = <<Remaster2011>> /\ tag.ext # ".wav") =>
           \A i \in 1..Len(TitleRequests) :
               /\ StartsWith(TitleRequests[i][2], <<"T">>)
               /\ \A k \in 1..Len(TitleRequests[i][2]) :
                      TitleRequests[i][2][k] # "Remaster"

\* ---------------------------------------------------------------------------
\* C16
\* ---------------------------------------------------------------------------
\* the text the pattern is searched in: the value as Python prints it
Searched == IF bool(released) THEN str(released).text ELSE << >>

\* a year of [1900, 2099] written at position i, no letter, digit or "_"
\* next to it
YearAt(t, i) ==
    /\ i + 3 <= Len(t)
    /\ FourDigits(SubSeq(t, i, i + 3))
    /\ InRange(SubSeq(t, i, i + 3))
    /\ i > 1 => ~IsWordChar(t[i - 1])
    /\ i + 4 <= Len(t) => ~IsWordChar(t[i + 4])

YearsAt(t) == {i \in 1..Len(t) : YearAt(t, i)}

\* C16: for every value, a str or not, both functions return; each result
\* is "" or four digits in [1900, 2099]; _extract_year_from_text returns the
\* leftmost year of the text, _extract_earliest_year_from_text the smallest
\* one, so the second is never above the first.
C16_YearsNeverFailLeftmostAndEarliest ==
    pc = "extracted" =>
        /\ result = String
        /\ \A y \in {year, wikipedia_year} : y = << >> \/ (FourDigits(y) /\ InRange(y))
        /\ IF YearsAt(Searched) = {}
           THEN year = << >> /\ wikipedia_year = << >>
           ELSE /\ \E i \in YearsAt(Searched) :
                    /\ year = SubSeq(Searched, i, i + 3)
                    /\ \A j \in YearsAt(Searched) : i <= j
                /\ \E i \in YearsAt(Searched) :
                    /\ wikipedia_year = SubSeq(Searched, i, i + 3)
                    /\ \A j \in YearsAt(Searched) :
                           NumVal(wikipedia_year) <= NumVal(SubSeq(Searched, j, j + 3))
        /\ NumVal(wikipedia_year) <= NumVal(year)
        /\ (year = << >>) <=> (wikipedia_year = << >>)

\* a text whose leftmost year is not its smallest
C16_Witness ==
    /\ pc = "extracted"
    /\ released.type = "str"
    /\ year = <<"2", "0", "9", "9">>
    /\ wikipedia_year = <<"1", "9", "0", "0">>

\* a value that is not a str and holds a year
C16_WitnessNonString ==
    /\ pc = "extracted"
    /\ released.type = "int"
    /\ year = <<"1", "9", "9", "9">>

\* ---------------------------------------------------------------------------
\* C17
\* ---------------------------------------------------------------------------
\* the request threads inside get_audio_metadata
Resolving == {h \in Handlers : handlers[h].pc = "resolve"}

\* C17: at no moment is more than one track being resolved, also while the
\* server answers /change-folder requests.
C17_OneResolutionAtATime == Cardinality(Resolving) <= 1

\* ---------------------------------------------------------------------------
\* C18
\* ---------------------------------------------------------------------------
\* the positions of the log that hold a request to MusicBrainz
MbRequestAt == {i \in 1..Len(log) : log[i][1] = "musicbrainz"}

\* the step before position i is a completed delay of `d` seconds
DelayBefore(i, d) ==
    /\ i > 1
    /\ log[i - 1] = Event("sleep", d, "slept")

\* the request at position i is the retry after a connection reset
RetryAfterReset(i) ==
    /\ i > 2
    /\ log[i - 2][1] = "musicbrainz"
    /\ log[i - 2][3] = "reset"

\* C18 as stated: every request to MusicBrainz, the first attempt and the
\* retry, comes right after a completed delay of one second.
C18_OneSecondBeforeEveryRequest ==
    \A i \in MbRequestAt : DelayBefore(i, <<"1">>)

\* C18, amended: every request to MusicBrainz comes right after a completed
\* delay: half a second before the retry that follows a connection reset,
\* one second before every other request.
C18_DelayBeforeEveryRequest ==
    \A i \in MbRequestAt :
        IF RetryAfterReset(i) THEN DelayBefore(i, <<"0", ".", "5">>)
        ELSE DelayBefore(i, <<"1">>)

\* a retry sent after a reset and the half second that preceded it
C18_Witness ==
    /\ Len(MbRequests) = 2
    /\ MbRequests[1][3] = "reset"
    /\ \E i \in MbRequestAt : RetryAfterReset(i) /\ DelayBefore(i, <<"0", ".", "5">>)

\* ---------------------------------------------------------------------------
\* C19
\* ---------------------------------------------------------------------------
\* the positions of the log that hold a request for a page
PageRequestAt == {i \in 1..Len(log) : log[i][1] \in {"page", "fetch"}}

\* the request at position i is itself the second attempt of a page
SecondAttempt(i) ==
    /\ i > 1
    /\ log[i - 1][1] = log[i][1]
    /\ log[i - 1][2] = log[i][2]
    /\ log[i - 1][3] = "503"

\* C19: a request for a page that failed with an HTTP 503 is sent once
\* more, and no failure of a request for a page reaches the caller of the
\* entry point: the call returns, its Wikipedia candidate empty.
C19_PageFetchRetriedOnceAndSwallowed ==
    pc = "done" =>
        /\ \A i \in PageRequestAt :
               (log[i][3] = "503" /\ ~SecondAttempt(i)) =>
                   /\ i < Len(log)
                   /\ log[i + 1][1] = log[i][1]
                   /\ log[i + 1][2] = log[i][2]
        /\ result # Raised

\* ---------------------------------------------------------------------------
\* C20
\* ---------------------------------------------------------------------------
\* the first year of [1900, 2099] found anywhere in a text ("" if none)
FirstYearIn(t) ==
    IF YearsAt(t) = {} THEN << >>
    ELSE LET i == CHOOSE k \in YearsAt(t) : \A j \in YearsAt(t) : k <= j
         IN  SubSeq(t, i, i + 3)

\* what stands before the first "-" of a date, when that is four digits
DateYear(t) ==
    LET d == Find(t, "-", 1)
        head == IF d = 0 THEN t ELSE SubSeq(t, 1, d - 1)
    IN  IF FourDigits(head) THEN head ELSE << >>

\* the numerically smaller of two years, an empty one left out
Earlier(a, b) ==
    IF a = << >> THEN b
    ELSE IF b = << >> THEN a
    ELSE IF NumVal(a) <= NumVal(b) THEN a ELSE b

\* the tags of a .flac or .mp3 file have been read and the seed is in `year`
SeedTaken == pc = "opensearch1" /\ tag.ext \in {".flac", ".mp3"}

FieldsNamed(name) == {j \in 1..Len(BodyLines) : IsField(j, name)}

\* the "artist" fields that stand before the first "released" field
ArtistsBeforeReleased ==
    IF FieldsNamed("released") = {} THEN {}
    ELSE {j \in FieldsNamed("artist") : j < SetMin(FieldsNamed("released"))}

\* C21: when several "artist" fields stand before the "released" field, the
\* value compared with the expected artist is that of the first of them: a
\* value is returned only if the first one equals the expected artist.
C21_FirstArtistFieldValidates ==
    (pc = "parsed" /\ released # << >> /\ Cardinality(ArtistsBeforeReleased) >= 2) =>
        FieldValue(SetMin(ArtistsBeforeReleased)) = artist

\* ---------------------------------------------------------------------------
\* C22
\* ---------------------------------------------------------------------------
\* the lookups of get_song_release_date
Fetches == EventsOf({"fetch"})

\* what reading the page answered last gives
ExtractionOf(p, a) ==
    IF p.kind # "wikitext" THEN << >>
    ELSE IF _extract_infobox_wikitext(p.text).found
         THEN _parse_released_from_infobox(_extract_infobox_wikitext(p.text).text, a)
    ELSE << >>

\* C22: a disambiguation page answered for the exact title is not read (no
\* infobox is taken from it, nothing is returned) and "<title> (song)" is
\* looked up next; the verdict changes nothing else: a disambiguation page
\* answered for a later variant is read like any other page and ends the
\* lookups.
C22_DisambiguationOnlyRetries ==
    /\ (Fetches # << >> /\ Fetches[1][3] = "disambiguation") =>
           IF Len(Fetches) = 1
           THEN pc = "fetch2" /\ infobox = Absent /\ released = << >> /\ result = Pending
           ELSE Fetches[2][2] = alt1(title)
    /\ \A i \in 2..Len(Fetches) :
           Fetches[i][3] = "disambiguation" =>
               /\ i = Len(Fetches)
               /\ pc = "done"
               /\ released = ExtractionOf(page, artist)

\* a disambiguation page for the exact title, then one for "<title> (song)"
\* whose infobox gave the value returned
C22_Witness ==
    /\ Len(Fetches) = 2
    /\ Fetches[1][3] = "disambiguation"
    /\ Fetches[2][3] = "disambiguation"
    /\ Fetches[2][2] = alt1(title)
    /\ released # << >>

\* ---------------------------------------------------------------------------
\* C23
\* ---------------------------------------------------------------------------
\* "{{" or "}}" stands at position i of a text
DelimiterAt(t, i) ==
    /\ i < Len(t)
    /\ \/ t[i] = "{" /\ t[i + 1] = "{"
       \/ t[i] = "}" /\ t[i + 1] = "}"

\* the elements of a text that stand outside every template, the counter of
\* open templates being c at position i (-1: a "}}" closes nothing)
RECURSIVE OutsideTemplates(_, _, _)
OutsideTemplates(t, i, c) ==
    IF i > Len(t) THEN IF c = 0 THEN << >> ELSE <<"unbalanced">>
    ELSE IF i < Len(t) /\ t[i] = "{" /\ t[i + 1] = "{"
         THEN OutsideTemplates(t, i + 2, c + 1)
    ELSE IF i < Len(t) /\ t[i] = "}" /\ t[i + 1] = "}"
         THEN IF c = 0 THEN <<"unbalanced">>
              ELSE OutsideTemplates(t, i + 2, c - 1)
    ELSE (IF c = 0 THEN <<t[i]>> ELSE << >>) \o OutsideTemplates(t, i + 1, c)

Holds(t, c) == \E i \in 1..Len(t) : t[i] = c

\* C23: no "{{" and no "}}" is left in the cleaned value, and when the
\* templates of the raw value are balanced, nested or not, a text that
\* stands only inside them is not in the cleaned value.
C23_NoTemplateLeft ==
    pc = "cleaned" =>
        /\ \A i \in 1..Len(released) : ~DelimiterAt(released, i)
        /\ (~Holds(OutsideTemplates(infobox.text, 1, 0), "unbalanced")
                /\ ~Holds(OutsideTemplates(infobox.text, 1, 0), "x"))
               => ~Holds(released, "x")

\* a nested pair of templates, balanced, has left its closing "}}" and the
\* text of the outer template in the cleaned value
C23_NestedTemplateLeft ==
    /\ pc = "cleaned"
    /\ infobox.text = <<"{", "{", "{", "{", "}", "}", "x", "}", "}">>
    /\ OutsideTemplates(infobox.text, 1, 0) = << >>
    /\ released = <<"x", "}", "}">>

\* ---------------------------------------------------------------------------
\* C24
\* ---------------------------------------------------------------------------
\* the "released" value of the page fetched, run through the Cleaner
CleanedReleased == _clean_wikitext(ReleasedText(page.text))

\* C24: the Wikipedia candidate taken from a page is the earliest year of
\* the cleaned "released" value, so that a year standing only inside a
\* <ref>...</ref> element of the field is neither the candidate nor the final
\* year.
C24_CandidateFromCleanedValue ==
    (EventsOf({"page"}) # << >> /\ ~InWikipediaStep /\ page.kind = "wikitext") =>
        /\ wikipedia_year = _extract_earliest_year_from_text(CleanedReleased)
        /\ (Returned /\ result.year # << >> /\ result.year # TagYear(tag)
                /\ result.year # musicbrainz_year)
               => Holds(CleanedReleased, result.year[1])

\* the year 1978 of a reference has become the candidate and the final year
\* although the cleaned value is 2010
C24_ReferenceYearTaken ==
    /\ Returned
    /\ EventsOf({"page"}) # << >>
    /\ page.kind = "wikitext"
    /\ CleanedReleased = <<"2", "0", "1", "0">>
    /\ wikipedia_year = <<"1", "9", "7", "8">>
    /\ result.year = <<"1", "9", "7", "8">>

\* ---------------------------------------------------------------------------
\* C26
\* ---------------------------------------------------------------------------
\* a readable file of a supported format whose artist or title is empty
EmptyField ==
    /\ tag.readable
    /\ tag.ext # ".txt"
    /\ \/ strip(TagArtist(tag)) = << >>
       \/ strip(TagTitle(tag)) = << >>

\* C26: for a track whose artist or title is empty the history holds no
\* request and no sleep at any time, and the year returned is the seed year.
C26_NoRequestForEmptyField ==
    EmptyField =>
        /\ log = << >>
        /\ wikipedia_year = << >> /\ musicbrainz_year = << >>
        /\ pc = "done" => Returned /\ result.year = TagYear(tag)

\* a file tagged with an empty artist, the title T and the date 2005 has
\* returned 2005 without a request
C26_Witness ==
    /\ Returned
    /\ tag.artist = << << >> >>
    /\ result.title = <<"T">>
    /\ log = << >>
    /\ result.year = Y2005

\* a .wav file has returned without a request
C26_WitnessWav ==
    /\ Returned
    /\ tag.ext = ".wav"
    /\ result.title = << >>
    /\ log = << >>

\* ---------------------------------------------------------------------------
\* C25
\* ---------------------------------------------------------------------------
\* the requests of one resolution: at most three title lookups (searches of
\* main.py, page fetches of wiki.py), one page of main.py, two requests to
\* the recording database
RequestsBounded ==
    /\ Len(EventsOf({"opensearch"})) <= 3
    /\ Len(EventsOf({"fetch"})) <= 3
    /\ Len(EventsOf({"page"})) <= 1
    /\ Len(EventsOf({"musicbrainz"})) <= 2

\* the resolution is over: a track has its tuple, with a year or without,
\* or is left out; get_song_release_date has returned or raised
Terminated ==
    /\ pc = "done"
    /\ result # Pending
    /\ IF Fetches = << >> THEN result.kind \in {"tuple", "None"}
       ELSE result.kind \in {"str", "raised"}

\* C25: whatever the sources answer, a resolution sends at most three title
\* lookups and two requests to the recording database, and it ends, in a
\* result with a year or in one without.
C25_TerminatesAfterBoundedRequests ==
    /\ []RequestsBounded
    /\ <>[]Terminated

\* a resolution ended after three searches, a page and two requests to the
\* recording database
C25_Witness ==
    /\ Terminated
    /\ Len(EventsOf({"opensearch"})) = 3
    /\ Len(EventsOf({"page"})) = 1
    /\ Len(EventsOf({"musicbrainz"})) = 2

\* ---------------------------------------------------------------------------
\* C27
\* ---------------------------------------------------------------------------
\* the request threads answered with a flashcards.json
ServedJson ==
    {h \in Handlers : /\ handlers[h].pc = "responded"
                      /\ handlers[h].path # << >>
                      /\ handlers[h].path[2] = "flashcards.json"}

\* the cards are those of the audio files of the folder
CardsOf(cards, folder) ==
    /\ Len(cards) = Len(AudioFiles(folder))
    /\ \A k \in 1..Len(cards) : cards[k].term = AudioFiles(folder)[k]

\* C27: at every moment state["json_file"] is the flashcards.json of
\* state["music_dir"], and every request answered with a flashcards.json got
\* the cards generated for the folder of the path it was given, never a
\* missing file.
C27_ConsistentStateServed ==
    /\ state.json_file = <<state.music_dir, "flashcards.json">>
    /\ \A h \in ServedJson :
           CardsOf(handlers[h].served, handlers[h].path[1])

\* a request for /flashcards.json was given the path of the new folder F2
\* and answered without a file, the cards of F2 not written yet
C27_MissingFileServed ==
    \E h \in ServedJson :
        /\ handlers[h].path[1] = "F2"
        /\ state.music_dir = "F2"
        /\ state.json_file = <<"F2", "flashcards.json">>
        /\ handlers[h].served = << >>

=============================================================================
